---- MODULE Spec2Model ----
(***************************************************************************)
(* Model of redditplacebot.client.Client and redditplacebot.exceptions.    *)
(*                                                                         *)
(* The client keeps one token record (self.__token_info), refreshes it     *)
(* lazily through the auth endpoint and sends every domain request with an *)
(* Authorization header built from it.  Python dicts are modelled as TLA+  *)
(* functions over their keys, None as the record NoneValue, time.time() as *)
(* the integer variable now, and the f-string "<a> <b>" as the pair        *)
(* <<a, b>>.  Every property reads a position in the code: pc[t] is the    *)
(* line thread t is about to execute.                                      *)
(***************************************************************************)
EXTENDS Integers, Sequences, FiniteSets, TLC

VARIABLES
    raise_errors,     \* self._raise_errors
    credentials,      \* self._client_id, _client_secret, _username, _password
    session,          \* self._session: who made it and its retry policy
    default_headers,  \* self.__headers
    token_info,       \* self.__token_info
    now,              \* time.time()
    issued,           \* number of tokens the auth server has handed out
    calls,            \* number of _request calls started
    pc,               \* per thread: position in _request
    call,             \* per thread: the arguments of the running call
    local,            \* per thread: locals of _headers and of the refresh
    net,              \* per thread: the transport's Retry state of the call in flight
    log,              \* per thread: the URLs the running call has requested, in order
    sent,             \* per thread: the domain request handed to session.request
    result,           \* per thread: what _request returned or raised
    probe             \* input and output of the pure functions checked alone

vars == <<raise_errors, credentials, session, default_headers, token_info, now,
          issued, calls, pc, call, local, net, log, sent, result, probe>>

config_vars == <<raise_errors, credentials, session, default_headers>>

(***************************************************************************)
(* Bounds of the model.                                                    *)
(***************************************************************************)
MaxTime == 2        \* time.time() runs over 0..MaxTime
MaxCalls == 2       \* _request calls per behaviour
MaxRetries == 2     \* largest value of the retries argument

Threads == {1, 2}
MainThread == {1}

(***************************************************************************)
(* Python values.                                                          *)
(***************************************************************************)
NoneValue == [is_none |-> TRUE]

EmptyDict == <<>>

(***************************************************************************)
(* The records of the model, each with its fields in one fixed order.      *)
(***************************************************************************)
\* resp.json() of a successful auth response (line 152).
TokenJson(access, type, expires) ==
    [access_token |-> access, token_type |-> type, expires_in |-> expires]

\* The arguments of a call of _request: nothing running.
NoCall ==
    [op |-> "none", method |-> "", url |-> "", json |-> NoneValue,
     headers |-> EmptyDict, args |-> <<>>]

\* The locals of _headers (lines 127-128) and the last auth status seen.
NoLocal ==
    [access_token |-> 0, token_type |-> "", stage |-> "token_type",
     auth_status |-> 0]

\* What a call gave back: nothing yet, a response, or a raised exception.
NoResult == [kind |-> "none", status |-> 0, error |-> "None", origin |-> "none"]

Raised(err, status_code, from) ==
    [kind |-> "raise", status |-> status_code, error |-> err, origin |-> from]

Returned(status_code) ==
    [kind |-> "response", status |-> status_code, error |-> "None",
     origin |-> "domain"]

\* The pure function applied alone, its input and its output.
NoProbe == [fn |-> "none"]

ProbeOf(name, arg, applied, value) ==
    [fn |-> name, input |-> arg, done |-> applied, out |-> value]

\* The transport's state for one request: attempts made, failures seen and
\* the Retry object of the next attempt.
NetState(made, failed, policy) ==
    [attempts |-> made, failures |-> failed, retry |-> policy]

\* dict.update(e) / {**d, **e}: the keys of e win.
Update(d, e) ==
    [k \in (DOMAIN d) \cup (DOMAIN e) |-> IF k \in DOMAIN e THEN e[k] ELSE d[k]]

(***************************************************************************)
(* exceptions.py                                                           *)
(***************************************************************************)
HTTPErrorDict ==
    (400 :> "HTTPBadRequestError") @@
    (401 :> "HTTPAuthorizationError") @@
    (403 :> "HTTPForbiddenError") @@
    (404 :> "HTTPNotFoundError") @@
    (409 :> "HTTPConflictError") @@
    (422 :> "HTTPUnprocessableEntityError") @@
    (429 :> "HTTPTooManyRequestError") @@
    (500 :> "HTTPServerError") @@
    (501 :> "HTTPNotImplementedError") @@
    (502 :> "HTTPBadGatewayError") @@
    (503 :> "HTTPServiceUnavailableError") @@
    (504 :> "HTTPGatewayTimeoutError")

\* A plausible slip: the success range tested as an open interval.
related_exception_open_range(status_code) ==
    IF 200 <= status_code /\ status_code < 299 THEN "None"
    ELSE IF status_code \in DOMAIN HTTPErrorDict THEN HTTPErrorDict[status_code]
    ELSE "HTTPError"

\* HTTPError.related_exception: the class of the exception, "None" for no error.
related_exception(status_code) ==
    IF 200 <= status_code /\ status_code <= 299 THEN "None"
    ELSE IF status_code \in DOMAIN HTTPErrorDict THEN HTTPErrorDict[status_code]
    ELSE "HTTPError"

(***************************************************************************)
(* client.py: constants and constructor arguments.                         *)
(***************************************************************************)
Margin == 120       \* the safety margin of _is_valid_token, in seconds

AUTH_URL == "https://www.reddit.com/api/v1/access_token"
QUERY_URL == "https://gql-realtime-2.reddit.com/query"

Credentials ==
    [client_id |-> "id", client_secret |-> "secret",
     username |-> "user", password |-> "pw"]

\* The retries argument: None (the default), or an int in 0..MaxRetries.
RetriesNone == [is_none |-> TRUE, value |-> 0]
RetriesArgs ==
    {RetriesNone} \cup {[is_none |-> FALSE, value |-> n] : n \in 0 .. MaxRetries}

\* Python truth of the retries argument (line 69: "if retries:").
Truthy(retries) == ~retries.is_none /\ retries.value # 0

\* The headers argument: None, or a dict that may already hold Authorization.
CustomAuth == <<"Custom", 0>>
HeadersArgs == {EmptyDict, "Authorization" :> CustomAuth}

\* The per-call headers a caller of _request may pass.
CallerAuth == <<"Caller", 0>>
CallerHeaders == {EmptyDict, "Authorization" :> CallerAuth}

\* __init__, lines 55-56: the stored default headers.
InitHeaders(headers, username) ==
    Update(headers, "User-Agent" :> <<username, "/0.1">>)

(***************************************************************************)
(* The transport's retry policy.  Retry(total, read, connect) as built on  *)
(* lines 80-87 leaves urllib3's allowed methods at their default, the      *)
(* idempotent methods: a read failure of any other method is re-raised     *)
(* without a retry, a connection failure is retried for every method.      *)
(* A session without a mounted adapter uses Retry(0, read=False).          *)
(***************************************************************************)
RetryAllowedMethods == {"HEAD", "GET", "PUT", "DELETE", "OPTIONS", "TRACE"}

\* __init_retries, lines 80-87.
ConfiguredRetry(retries) ==
    [total |-> retries, read |-> retries, connect |-> retries, read_on |-> TRUE]

\* requests.Session() as made on line 68, no adapter mounted.
DefaultRetry ==
    [total |-> 0, read |-> 0, connect |-> 0, read_on |-> FALSE]

\* The sessions a caller may hand to the constructor.
ExternalSessions == {ConfiguredRetry(1)}

\* A plausible slip: the adapter mounted on a caller's session as well.
InitSession_mounts_on_external(session_arg, retries) ==
    IF Truthy(retries)
    THEN [external |-> session_arg # NoneValue, mounted |-> TRUE,
          max_retries |-> ConfiguredRetry(retries.value)]
    ELSE IF session_arg # NoneValue
         THEN [external |-> TRUE, mounted |-> FALSE, max_retries |-> session_arg]
         ELSE [external |-> FALSE, mounted |-> FALSE, max_retries |-> DefaultRetry]

\* __init_session, lines 66-70: session_arg is NoneValue or a caller's policy.
InitSession(session_arg, retries) ==
    IF session_arg # NoneValue
    THEN [external |-> TRUE, mounted |-> FALSE, max_retries |-> session_arg]
    ELSE IF Truthy(retries)
         THEN [external |-> FALSE, mounted |-> TRUE,
               max_retries |-> ConfiguredRetry(retries.value)]
         ELSE [external |-> FALSE, mounted |-> FALSE, max_retries |-> DefaultRetry]

\* The backoff_factor argument, in tenths of a second: None, 0 or a number.
BackoffNone == [is_none |-> TRUE, value |-> 0]
BackoffArgs == {BackoffNone} \cup {[is_none |-> FALSE, value |-> b] : b \in {0, 5}}

DEFAULT_BACKOFF_FACTOR == 3     \* 0.3 seconds, in tenths

\* __init__, line 52: "backoff_factor or self.DEFAULT_BACKOFF_FACTOR".
EffectiveBackoff(backoff_factor) ==
    IF backoff_factor.is_none \/ backoff_factor.value = 0
    THEN DEFAULT_BACKOFF_FACTOR
    ELSE backoff_factor.value

\* The backoff_factor that reaches a mounted Retry (line 85), BackoffNone
\* when __init_retries is not called.
MountedBackoff(session_arg, retries, backoff_factor) ==
    IF session_arg = NoneValue /\ Truthy(retries)
    THEN [is_none |-> FALSE, value |-> EffectiveBackoff(backoff_factor)]
    ELSE BackoffNone

\* Retry.increment for one failed attempt: the next Retry state and whether
\* the failure is raised to the caller instead of retried.
RetryIncrement(retry, method, failure) ==
    LET total == retry.total - 1
        connect == IF failure = "connect" THEN retry.connect - 1 ELSE retry.connect
        read == IF failure = "read" THEN retry.read - 1 ELSE retry.read
        reraise == failure = "read"
                     /\ (~retry.read_on \/ method \notin RetryAllowedMethods)
        exhausted == total < 0 \/ connect < 0 \/ read < 0
    IN  [retry |-> [retry EXCEPT !.total = total, !.connect = connect,
                                 !.read = read],
         raise |-> reraise \/ exhausted]

(***************************************************************************)
(* client.py: properties and helpers.                                      *)
(***************************************************************************)
\* A plausible slip: the margin compared with <= .
is_valid_token_inclusive(tok, t) ==
    IF tok = NoneValue THEN FALSE
    ELSE t + Margin <= tok.created_at + tok.expires_in

\* _is_valid_token, lines 104-109.
is_valid_token(tok, t) ==
    IF tok = NoneValue THEN FALSE
    ELSE t + Margin < tok.created_at + tok.expires_in

\* A plausible slip: errors of the auth call honoured only under raise_errors.
RefreshRaises_when_configured(status_code) ==
    raise_errors /\ related_exception(status_code) # "None"

\* _refresh__token_info, line 150.
RefreshRaises(status_code) == related_exception(status_code) # "None"

\* A plausible slip: created_at left at the epoch.
StampedToken_epoch(tok, t) ==
    [k \in (DOMAIN tok) \cup {"created_at"} |->
        IF k = "created_at" THEN 0 ELSE tok[k]]

\* _refresh__token_info, line 153.
StampedToken(tok, t) ==
    [k \in (DOMAIN tok) \cup {"created_at"} |->
        IF k = "created_at" THEN t ELSE tok[k]]

\* _headers, line 129: {"Authorization": ..., **self.__headers}.
HeadersProperty(token_type, token) ==
    Update("Authorization" :> <<token_type, token>>, default_headers)

\* _request, lines 168-170: headers.update(self._headers).
RequestHeaders(per_call, computed) == Update(per_call, computed)

\* A plausible slip: the error raised whatever raise_errors says.
DomainRaises_always(status_code) == related_exception(status_code) # "None"

\* _request, line 172.
DomainRaises(status_code) ==
    raise_errors /\ related_exception(status_code) # "None"

\* A plausible slip: the coordinates swapped.
write_pixel_data_swapped(x, y, color) ==
    [operationName |-> "setPixel",
     variables |-> [input |->
        [actionName |-> "r/replace:set_pixel",
         PixelMessageData |->
            [coordinate |-> [x |-> y, y |-> x],
             colorIndex |-> color,
             canvasIndex |-> 0]]],
     query |-> "mutation setPixel"]

\* write_pixel, lines 184-197.
write_pixel_data(x, y, color) ==
    [operationName |-> "setPixel",
     variables |-> [input |->
        [actionName |-> "r/replace:set_pixel",
         PixelMessageData |->
            [coordinate |-> [x |-> x, y |-> y],
             colorIndex |-> color,
             canvasIndex |-> 0]]],
     query |-> "mutation setPixel"]

(***************************************************************************)
(* The environment: what callers pass and what the servers answer.         *)
(***************************************************************************)
PixelArgs == {<<5, 10, 3>>, <<-1, 2000, 99>>}
Methods == {"GET", "POST"}
AuthStatuses == {200, 401, 302}
DomainStatuses == {200, 403, 418}
TokenTypes == {"bearer", "mac"}
ExpiresIn == {Margin, Margin + 1, Margin + 2}
Failures == {"connect", "read"}

\* The transport at the start of a request: the session's max_retries, unused.
NewNet == NetState(0, 0, session.max_retries)

(***************************************************************************)
(* Construction: Client.__init__.                                          *)
(***************************************************************************)
Construct(raise_args, session_args, retries_args, headers_args) ==
    /\ raise_errors \in raise_args
    /\ credentials = Credentials
    /\ \E session_arg \in session_args, retries \in retries_args :
            session = InitSession(session_arg, retries)
    /\ \E headers \in headers_args :
            default_headers = InitHeaders(headers, Credentials.username)
    /\ issued = 0
    /\ calls = 0
    /\ pc = [t \in Threads |-> "idle"]
    /\ call = [t \in Threads |-> NoCall]
    /\ local = [t \in Threads |-> NoLocal]
    /\ net = [t \in Threads |-> NetState(0, 0, DefaultRetry)]
    /\ log = [t \in Threads |-> <<>>]
    /\ sent = [t \in Threads |-> NoneValue]
    /\ result = [t \in Threads |-> NoResult]

\* __init__, line 54, at the time of construction.
Fresh ==
    /\ token_info = NoneValue
    /\ now = 0
    /\ probe = NoProbe

\* Clients built with the default transport (session and retries left None).
Init ==
    /\ Construct(BOOLEAN, {NoneValue}, {RetriesNone}, HeadersArgs)
    /\ Fresh

\* Clients built with every session and retries argument.
InitTransport ==
    /\ Construct({FALSE}, {NoneValue} \cup ExternalSessions, RetriesArgs, {EmptyDict})
    /\ Fresh

(***************************************************************************)
(* Operations.                                                             *)
(***************************************************************************)
\* Entry of _request (line 159): the per-call state starts afresh.
Enter(t, c) ==
    /\ pc[t] \in {"idle", "done"}
    /\ calls < MaxCalls
    /\ calls' = calls + 1
    /\ call' = [call EXCEPT ![t] = c]
    /\ pc' = [pc EXCEPT ![t] = "access"]
    /\ local' = [local EXCEPT ![t] = NoLocal]
    /\ log' = [log EXCEPT ![t] = <<>>]
    /\ sent' = [sent EXCEPT ![t] = NoneValue]
    /\ result' = [result EXCEPT ![t] = NoResult]
    /\ net' = [net EXCEPT ![t] = NewNet]
    /\ UNCHANGED <<config_vars, token_info, now, issued, probe>>

\* write_pixel, lines 176-199.
WritePixel(t) ==
    \E a \in PixelArgs :
        Enter(t, [op |-> "write_pixel", method |-> "POST", url |-> QUERY_URL,
                  json |-> write_pixel_data(a[1], a[2], a[3]),
                  headers |-> EmptyDict, args |-> a])

\* _request called directly, with the caller's method and headers.
Request(t) ==
    \E m \in Methods, h \in CallerHeaders :
        Enter(t, [op |-> "_request", method |-> m, url |-> QUERY_URL,
                  json |-> NoneValue, headers |-> h, args |-> <<>>])

\* A plausible slip: the token refreshed on every access.
NeedsRefresh_always(tok, t) == TRUE

\* _token_info, line 118: "if not self._is_valid_token".
NeedsRefresh(tok, t) == ~is_valid_token(tok, t)

\* _token_info, line 118: the validity test, and the call of the refresh
\* (lines 119, 141-149) when it fails.
AccessToken(t) ==
    /\ pc[t] = "access"
    /\ IF token_info # NoneValue /\ "created_at" \notin DOMAIN token_info
       THEN /\ pc' = [pc EXCEPT ![t] = "done"]
            /\ result' = [result EXCEPT ![t] = Raised("KeyError", 0, "token")]
            /\ UNCHANGED <<log, net>>
       ELSE IF ~NeedsRefresh(token_info, now)
       THEN /\ pc' = [pc EXCEPT ![t] = "return"]
            /\ UNCHANGED <<log, net, result>>
       ELSE /\ pc' = [pc EXCEPT ![t] = "auth_send"]
            /\ log' = [log EXCEPT ![t] = Append(@, AUTH_URL)]
            /\ net' = [net EXCEPT ![t] = NewNet]
            /\ UNCHANGED result
    /\ UNCHANGED <<config_vars, token_info, now, issued, calls, call, local, sent, probe>>

\* One attempt of the transport that ends in a connection or read failure.
TransportFail(t) ==
    /\ pc[t] \in {"auth_send", "domain_send"}
    /\ \E f \in Failures :
        LET method == IF pc[t] = "auth_send" THEN "POST" ELSE call[t].method
            inc == RetryIncrement(net[t].retry, method, f)
        IN  /\ net' = [net EXCEPT ![t] = NetState(@.attempts + 1, @.failures + 1,
                                                   inc.retry)]
            /\ IF inc.raise
               THEN /\ pc' = [pc EXCEPT ![t] = "done"]
                    /\ result' = [result EXCEPT ![t] = Raised(f, 0, "transport")]
               ELSE UNCHANGED <<pc, result>>
    /\ UNCHANGED <<config_vars, token_info, now, issued, calls, call, local, log,
                   sent, probe>>

\* The token a refresh leaves stored when it raises (lines 150-151):
\* a plausible slip drops it.
TokenOnRefreshFailure_cleared(tok) == NoneValue

\* Lines 150-151 raise before line 152 assigns.
TokenOnRefreshFailure(tok) == tok

\* _refresh__token_info, lines 149-152: the auth response arrives.
AuthResponse(t) ==
    /\ pc[t] = "auth_send"
    /\ \E s \in AuthStatuses, ty \in TokenTypes, ex \in ExpiresIn :
        LET json == TokenJson(issued + 1, ty, ex)
        IN  /\ net' = [net EXCEPT ![t] = NewNet]
            /\ local' = [local EXCEPT ![t].auth_status = s]
            /\ IF RefreshRaises(s)
               THEN /\ token_info' = TokenOnRefreshFailure(token_info)
                    /\ pc' = [pc EXCEPT ![t] = "done"]
                    /\ result' = [result EXCEPT ![t] =
                                    Raised(related_exception(s), s, "auth")]
                    /\ UNCHANGED issued
               ELSE /\ token_info' = json
                    /\ issued' = issued + 1
                    /\ pc' = [pc EXCEPT ![t] = "stamp"]
                    /\ UNCHANGED result
    /\ UNCHANGED <<config_vars, now, calls, call, log, sent, probe>>

\* A plausible slip: the validity tested again after the refresh, as in
\* "while not self._is_valid_token".
AfterRefresh_tests_again == "access"

\* _token_info, lines 118-120: after the refresh the token is returned
\* without another test.
AfterRefresh == "return"

\* _refresh__token_info, line 153.
Stamp(t) ==
    /\ pc[t] = "stamp"
    /\ token_info' = StampedToken(token_info, now)
    /\ pc' = [pc EXCEPT ![t] = AfterRefresh]
    /\ UNCHANGED <<config_vars, now, issued, calls, call, local, net, log, sent,
                   result, probe>>

\* _token_info, line 120, and the subscript of line 127 or 128.
ReturnToken(t) ==
    /\ pc[t] = "return"
    /\ IF local[t].stage = "token_type"
       THEN /\ local' = [local EXCEPT ![t].token_type = token_info.token_type,
                                      ![t].stage = "access_token"]
            /\ pc' = [pc EXCEPT ![t] = "access"]
       ELSE /\ local' = [local EXCEPT ![t].access_token = token_info.access_token]
            /\ pc' = [pc EXCEPT ![t] = "build"]
    /\ UNCHANGED <<config_vars, token_info, now, issued, calls, call, net, log,
                   sent, result, probe>>

\* A plausible slip: the Authorization entry written into self.__headers.
StoredHeaders_updated_in_place(stored, token_type, token) ==
    Update(stored, "Authorization" :> <<token_type, token>>)

\* _headers, line 129: the dict literal is a new dict, self.__headers is
\* only read.
StoredHeaders(stored, token_type, token) == stored

\* _headers line 129 and _request lines 168-171: the request is handed to
\* session.request.
SendDomain(t) ==
    /\ pc[t] = "build"
    /\ LET headers == RequestHeaders(call[t].headers,
                          HeadersProperty(local[t].token_type, local[t].access_token))
       IN  /\ call' = [call EXCEPT ![t].headers = headers]
           /\ sent' = [sent EXCEPT ![t] =
                        [method |-> call[t].method, url |-> call[t].url,
                         json |-> call[t].json, headers |-> headers]]
    /\ log' = [log EXCEPT ![t] = Append(@, call[t].url)]
    /\ net' = [net EXCEPT ![t] = NewNet]
    /\ default_headers' = StoredHeaders(default_headers, local[t].token_type,
                                        local[t].access_token)
    /\ pc' = [pc EXCEPT ![t] = "domain_send"]
    /\ UNCHANGED <<raise_errors, credentials, session, token_info, now, issued,
                   calls, local, result, probe>>

\* _request, lines 171-174: the domain response arrives.
DomainResponse(t) ==
    /\ pc[t] = "domain_send"
    /\ \E s \in DomainStatuses :
        /\ net' = [net EXCEPT ![t].attempts = @ + 1]
        /\ result' = [result EXCEPT ![t] =
                        IF DomainRaises(s)
                        THEN Raised(related_exception(s), s, "domain")
                        ELSE Returned(s)]
    /\ pc' = [pc EXCEPT ![t] = "done"]
    /\ UNCHANGED <<config_vars, token_info, now, issued, calls, call, local, log,
                   sent, probe>>

\* time.time() advances.
Tick ==
    /\ now < MaxTime
    /\ now' = now + 1
    /\ UNCHANGED <<config_vars, token_info, issued, calls, pc, call, local, net,
                   log, sent, result, probe>>

Step(t) ==
    \/ WritePixel(t)
    \/ Request(t)
    \/ AccessToken(t)
    \/ TransportFail(t)
    \/ AuthResponse(t)
    \/ Stamp(t)
    \/ ReturnToken(t)
    \/ SendDomain(t)
    \/ DomainResponse(t)

\* One caller at a time: the single-threaded use the client is written for.
Next == (\E t \in MainThread : Step(t)) \/ Tick

Spec == Init /\ [][Next]_vars

SpecTransport == InitTransport /\ [][Next]_vars

\* Two threads sharing one client: the steps of their calls interleave at
\* every position, as Python threads may switch between any two statements.
InitConcurrent ==
    /\ Construct({FALSE}, {NoneValue}, {RetriesNone}, {EmptyDict})
    /\ Fresh

\* The steps of a call once it has been entered.
Progress(t) ==
    \/ AccessToken(t)
    \/ TransportFail(t)
    \/ AuthResponse(t)
    \/ Stamp(t)
    \/ ReturnToken(t)
    \/ SendDomain(t)
    \/ DomainResponse(t)

NextConcurrent == (\E t \in Threads : WritePixel(t) \/ Progress(t)) \/ Tick

SpecConcurrent == InitConcurrent /\ [][NextConcurrent]_vars

\* A call that has been entered keeps running: the calling thread is
\* scheduled, and every network call it makes comes back with a response or
\* a failure.  Clients without retries and with one retry.
InitLive ==
    /\ Construct({FALSE}, {NoneValue},
                 {RetriesNone, [is_none |-> FALSE, value |-> 1]},
                 {EmptyDict})
    /\ Fresh

SpecLive ==
    InitLive /\ [][Next]_vars /\ \A t \in MainThread : WF_vars(Progress(t))

(***************************************************************************)
(* The pure functions, applied to inputs drawn at Init.                    *)
(***************************************************************************)
MaxStatus == 600     \* status codes run over -1..MaxStatus
MaxElapsed == 3700   \* seconds between created_at and the validity test

StatusCodes == (0 - 1) .. MaxStatus
ProbeCreated == {0, 50}
ProbeExpires == {0, Margin, Margin + 1, 3600}

OneClient == Construct({FALSE}, {NoneValue}, {RetriesNone}, {EmptyDict})

InitClassify ==
    /\ OneClient
    /\ token_info = NoneValue
    /\ now = 0
    /\ \E s \in StatusCodes :
        probe = ProbeOf("related_exception", s, FALSE, "")

\* HTTPError.related_exception(resp) on a response with the drawn status.
Classify ==
    /\ probe.fn = "related_exception"
    /\ ~probe.done
    /\ probe' = [probe EXCEPT !.done = TRUE,
                              !.out = related_exception(probe.input)]
    /\ UNCHANGED <<config_vars, token_info, now, issued, calls, pc, call, local,
                   net, log, sent, result>>

SpecClassify == InitClassify /\ [][Classify]_vars

InitValid ==
    /\ OneClient
    /\ token_info \in
        {NoneValue} \cup
        {StampedToken(TokenJson(1, "bearer", e), c) :
            e \in ProbeExpires, c \in ProbeCreated}
    /\ \E c \in ProbeCreated, d \in 0 .. MaxElapsed : now = c + d
    /\ probe = ProbeOf("_is_valid_token", 0, FALSE, FALSE)

\* The property _is_valid_token read at time now.
CheckValid ==
    /\ probe.fn = "_is_valid_token"
    /\ ~probe.done
    /\ probe' = [probe EXCEPT !.done = TRUE,
                              !.out = is_valid_token(token_info, now)]
    /\ UNCHANGED <<config_vars, token_info, now, issued, calls, pc, call, local,
                   net, log, sent, result>>

SpecValid == InitValid /\ [][CheckValid]_vars

\* The sessions a caller may have prepared, with and without retries.
ProbeSessions == {DefaultRetry} \cup {ConfiguredRetry(n) : n \in 0 .. MaxRetries}

\* __init__ with every session, retries and backoff_factor argument.
InitConstructed ==
    /\ \E session_arg \in {NoneValue} \cup ProbeSessions,
           retries \in RetriesArgs, backoff_factor \in BackoffArgs :
            /\ Construct({FALSE}, {session_arg}, {retries}, {EmptyDict})
            /\ probe = ProbeOf("__init_session",
                                <<session_arg, retries, backoff_factor>>,
                                FALSE, BackoffNone)
    /\ token_info = NoneValue
    /\ now = 0

\* The session the constructor left in self._session, read back through the
\* session property (lines 95-97), with the backoff its adapter was given.
ReadSession ==
    /\ probe.fn = "__init_session"
    /\ ~probe.done
    /\ probe' = [probe EXCEPT !.done = TRUE,
                              !.out = MountedBackoff(probe.input[1], probe.input[2],
                                                     probe.input[3])]
    /\ UNCHANGED <<config_vars, token_info, now, issued, calls, pc, call, local,
                   net, log, sent, result>>

SpecConstructed == InitConstructed /\ [][ReadSession]_vars

(***************************************************************************)
(* Properties.                                                             *)
(***************************************************************************)
Is2xx(status_code) == status_code \in 200 .. 299

Range(f) == {f[i] : i \in DOMAIN f}

\* The error kinds of the taxonomy, by status code.
SpecificKinds ==
    {<<400, "HTTPBadRequestError">>, <<401, "HTTPAuthorizationError">>,
     <<403, "HTTPForbiddenError">>, <<404, "HTTPNotFoundError">>,
     <<409, "HTTPConflictError">>, <<422, "HTTPUnprocessableEntityError">>,
     <<429, "HTTPTooManyRequestError">>, <<500, "HTTPServerError">>,
     <<501, "HTTPNotImplementedError">>, <<502, "HTTPBadGatewayError">>,
     <<503, "HTTPServiceUnavailableError">>, <<504, "HTTPGatewayTimeoutError">>}

ExpectedKind(status_code) ==
    IF Is2xx(status_code) THEN "None"
    ELSE IF \E k \in SpecificKinds : k[1] = status_code
         THEN (CHOOSE k \in SpecificKinds : k[1] = status_code)[2]
         ELSE "HTTPError"

\* C1: in the first call of a freshly constructed client the network calls
\* are one POST to the auth endpoint and then, if it succeeded, the domain
\* request: never a second auth POST, whatever expires_in the server returned.
ClaimC1_ExactlyOneRefresh ==
    \A t \in Threads :
        (calls = 1 /\ pc[t] # "idle")
            => log[t] \in {<<>>, <<AUTH_URL>>, <<AUTH_URL, QUERY_URL>>}

\* C2: _is_valid_token is false for a null token and, for a stored token,
\* true exactly when more than 120 seconds of its lifetime remain at the time
\* of the test; with created_at = T0 and expires_in = 3600 it is true at
\* T0+3000 and false at T0+3480, T0+3521 and T0+3600.
TheoremC2_ValidityPredicate ==
    (probe.fn = "_is_valid_token" /\ probe.done) =>
        /\ token_info = NoneValue => probe.out = FALSE
        /\ token_info # NoneValue =>
            LET remaining == token_info.created_at + token_info.expires_in - now
                elapsed == now - token_info.created_at
            IN  /\ probe.out = (remaining > 120)
                /\ token_info.expires_in = 3600 =>
                    /\ elapsed = 3000 => probe.out = TRUE
                    /\ elapsed = 3480 => probe.out = FALSE
                    /\ elapsed = 3521 => probe.out = FALSE
                    /\ elapsed = 3600 => probe.out = FALSE

\* C2 witness: the boundary instant T0+3480 of a 3600-second token, found invalid.
WitnessC2_Boundary ==
    /\ probe.fn = "_is_valid_token"
    /\ probe.done
    /\ token_info # NoneValue
    /\ token_info.expires_in = 3600
    /\ now = token_info.created_at + 3480
    /\ probe.out = FALSE

\* C3: a refresh that raises on a non-2xx auth response leaves the stored
\* token exactly as it was before the attempt.
TheoremC3_FailedRefreshKeepsToken ==
    [][\A t \in Threads :
          (pc[t] = "auth_send" /\ pc'[t] = "done" /\ result'[t].origin = "auth")
              => token_info' = token_info]_vars

\* C3 witness: a refresh has failed while an expired token was stored, and the
\* expired token is still there.
WitnessC3_StaleTokenKept ==
    /\ pc[1] = "done"
    /\ result[1].origin = "auth"
    /\ token_info # NoneValue
    /\ ~is_valid_token(token_info, now)

TheoremC5_DualMode ==
    \A t \in Threads :
        result[t].origin = "domain" =>
            IF raise_errors /\ ~Is2xx(result[t].status)
            THEN /\ result[t].kind = "raise"
                 /\ result[t].error = ExpectedKind(result[t].status)
                 /\ result[t].status = 403 => result[t].error = "HTTPForbiddenError"
            ELSE result[t] = Returned(result[t].status)

\* C5 witness: a 403 domain response handed back under raise_errors = false.
WitnessC5_ForbiddenReturned ==
    /\ ~raise_errors
    /\ pc[1] = "done"
    /\ result[1] = Returned(403)

\* C6: the Authorization header of every domain request is the one computed
\* from the token the client read, whatever the default headers and the
\* per-call headers hold.
ClaimC6_AuthorizationIsOwn ==
    \A t \in Threads :
        sent[t] # NoneValue =>
            sent[t].headers["Authorization"]
                = <<local[t].token_type, local[t].access_token>>

\* C7: the classification of a status code is no error on 200..299, the
\* specific kind on each of the twelve listed codes and the generic HTTPError
\* on every other code.
TheoremC7_Classification ==
    (probe.fn = "related_exception" /\ probe.done) =>
        /\ probe.out = ExpectedKind(probe.input)
        /\ Is2xx(probe.input) <=> probe.out = "None"
        /\ probe.input \in {418, 100, 302} => probe.out = "HTTPError"

\* C7 witness: the last code of the success range, classified as no error.
WitnessC7_LastSuccessCode ==
    /\ probe.fn = "related_exception"
    /\ probe.done
    /\ probe.input = 299
    /\ probe.out = "None"

\* C8: with retries = N >= 1 mounted, a request whose transport fails k < N
\* times and then succeeds is attempted k+1 times and returns the response:
\* the transport never gives up on a failure before the N-th.
ClaimC8_RetriesUntilSuccess ==
    \A t \in Threads :
        (session.mounted /\ pc[t] = "done" /\ result[t].origin = "transport")
            => net[t].failures >= session.max_retries.total

\* C9: write_pixel(x, y, color) sends, through _request, a POST to the query
\* endpoint whose PixelMessageData is the coordinate {x, y}, colorIndex color
\* and canvasIndex 0, for every x, y and color, and at most one such request.
TheoremC9_WritePixelBody ==
    \A t \in Threads :
        call[t].op = "write_pixel" =>
            LET expected ==
                    [coordinate |-> [x |-> call[t].args[1], y |-> call[t].args[2]],
                     colorIndex |-> call[t].args[3],
                     canvasIndex |-> 0]
                posts == {i \in DOMAIN log[t] : log[t][i] = QUERY_URL}
            IN  /\ call[t].method = "POST"
                /\ call[t].url = QUERY_URL
                /\ call[t].json.variables.input.PixelMessageData = expected
                /\ Cardinality(posts) <= 1
                /\ sent[t] # NoneValue =>
                    /\ sent[t].method = "POST"
                    /\ sent[t].url = QUERY_URL
                    /\ sent[t].json.operationName = "setPixel"
                    /\ sent[t].json.variables.input.PixelMessageData = expected
                    /\ Cardinality(posts) = 1

\* C9 witness: a pixel outside any canvas went out unchanged.
WitnessC9_UnvalidatedPixelSent ==
    /\ call[1].op = "write_pixel"
    /\ call[1].args = <<-1, 2000, 99>>
    /\ sent[1] # NoneValue
    /\ pc[1] = "done"
    /\ result[1].kind = "response"

\* C10 as stated: right after a refresh that received a 2xx auth response
\* the stored token is valid, for every expires_in.
ClaimC10_RefreshGivesValidToken ==
    [][\A t \in Threads :
          (pc[t] = "stamp" /\ pc'[t] = "return")
              => is_valid_token(token_info', now')]_vars

\* C10 as amended: right after a refresh that received a 2xx auth response
\* the stored token is valid if and only if the expires_in it came with is
\* more than 120 seconds.
TheoremC10_RefreshValidIffLongLived ==
    [][\A t \in Threads :
          (pc[t] = "stamp" /\ pc'[t] = "return")
              => (is_valid_token(token_info', now')
                    <=> token_info'.expires_in > 120)]_vars

\* C10 witness: a token of 121 seconds was just stamped, later than the
\* epoch, and is valid.
WitnessC10_JustRefreshedValid ==
    /\ pc[1] = "return"
    /\ log[1] # <<>>
    /\ now > 0
    /\ token_info # NoneValue
    /\ "created_at" \in DOMAIN token_info
    /\ token_info.created_at = now
    /\ token_info.expires_in = 121
    /\ is_valid_token(token_info, now)

\* A stored token that carries every field of a stamped auth response.
Complete(tok) ==
    tok # NoneValue /\ "created_at" \in DOMAIN tok

\* The number of POSTs to the auth endpoint in a call's request log.
AuthCalls(l) == Cardinality({i \in DOMAIN l : l[i] = AUTH_URL})

\* The number of requests to the query endpoint in a call's request log.
DomainCalls(l) == Cardinality({i \in DOMAIN l : l[i] = QUERY_URL})

\* C11: expiry is found lazily and the refresh is made on demand.  A step
\* that only lets time pass leaves the stored token and the request logs as
\* they are; while the stored token is valid no step issues an auth POST or
\* changes the stored token; and an auth POST is issued only by a token access
\* that found the stored token invalid.
TheoremC11_LazyRefresh ==
    [][/\ now' # now => (token_info' = token_info /\ log' = log)
       /\ (Complete(token_info) /\ is_valid_token(token_info, now)) =>
            /\ token_info' = token_info
            /\ \A t \in Threads : AuthCalls(log'[t]) <= AuthCalls(log[t])
       /\ \A t \in Threads :
            AuthCalls(log'[t]) > AuthCalls(log[t]) =>
                /\ pc[t] = "access"
                /\ ~is_valid_token(token_info, now)
                /\ pc'[t] = "auth_send"]_vars

\* C11 witness: time has passed since the refresh of the first call, and a
\* second call has run to its response on the stored token without any auth
\* POST.
WitnessC11_SecondCallNoAuth ==
    /\ calls = 2
    /\ pc[1] = "done"
    /\ result[1].kind = "response"
    /\ log[1] = <<QUERY_URL>>
    /\ Complete(token_info)
    /\ token_info.created_at < now
    /\ is_valid_token(token_info, now)

\* C12: while two requests run on one client, the stored token is always
\* either null or a complete record of one auth response, and no request
\* fails on a token the other request has half-written.
ClaimC12_TokenReplacedWhole ==
    /\ (\A t \in Threads : pc[t] \notin {"idle", "done"}) =>
            (token_info = NoneValue \/ Complete(token_info))
    /\ \A t \in Threads : result[t].error # "KeyError"

\* C13: with retries = N mounted, one request is attempted at most N times
\* and a transport failure is surfaced at the N-th failed attempt whether it
\* was a connection failure or a read failure; with retries None or 0 a
\* transport failure is surfaced after a single attempt.
ClaimC13_AtMostNAttempts ==
    \A t \in Threads :
        /\ session.mounted =>
            /\ net[t].attempts <= session.max_retries.total
            /\ (pc[t] = "done" /\ result[t].origin = "transport")
                    => net[t].failures = session.max_retries.total
        /\ (~session.mounted /\ ~session.external) =>
            /\ pc[t] \in {"auth_send", "domain_send"} => net[t].failures = 0
            /\ (pc[t] = "done" /\ result[t].origin = "transport")
                    => net[t].attempts = 1

\* C14: when the constructor is given a session, the client's session is that
\* session as it is, with no retry adapter mounted and no backoff applied,
\* whatever the retries and backoff_factor arguments are.
TheoremC14_ExternalSessionKept ==
    (probe.fn = "__init_session" /\ probe.input[1] # NoneValue) =>
        /\ session.external
        /\ ~session.mounted
        /\ session.max_retries = probe.input[1]
        /\ probe.done => probe.out = BackoffNone

\* C14 witness: a session without retries was supplied together with
\* retries = 2 and a backoff factor, and the client's session has no adapter.
WitnessC14_RetriesIgnored ==
    /\ probe.fn = "__init_session"
    /\ probe.done
    /\ probe.input[1] = DefaultRetry
    /\ probe.input[2] = [is_none |-> FALSE, value |-> 2]
    /\ probe.input[3] = [is_none |-> FALSE, value |-> 5]
    /\ ~session.mounted
    /\ session.max_retries = DefaultRetry

ClaimC16_SingleSnapshot ==
    \A t \in Threads :
        (/\ pc[t] = "build"
         /\ token_info # NoneValue
         /\ token_info.access_token = local[t].access_token)
            => token_info.token_type = local[t].token_type

\* C17: every call of _request ends, with a response or an error, and makes
\* at most two POSTs to the auth endpoint and at most one domain request on
\* the way, whatever tokens the auth endpoint returns.
TheoremC17_BoundedCalls ==
    /\ [](\A t \in Threads : AuthCalls(log[t]) <= 2 /\ DomainCalls(log[t]) <= 1)
    /\ \A t \in MainThread :
        [](pc[t] \notin {"idle", "done"} => <>(pc[t] = "done"))

\* C17 witness: a call that refreshed twice, on tokens already inside the
\* margin, has sent its domain request and ended with a response.
WitnessC17_TwoRefreshesThenDone ==
    /\ pc[1] = "done"
    /\ result[1].kind = "response"
    /\ log[1] = <<AUTH_URL, AUTH_URL, QUERY_URL>>
    /\ ~is_valid_token(token_info, now)

====
